---- MODULE Spec2Model ----
(***************************************************************************)
(* The error-feedback daemon: a filesystem-backed work queue.              *)
(*                                                                         *)
(*   bundle-writer.ts  writeErrorBundle / readErrorBundle /                *)
(*                     listPendingBundles                                  *)
(*   daemon.ts         ErrorFeedbackDaemon (start, stop, scheduleBatch,    *)
(*                     processBatch, processBundle), moveBundleToProcessed,*)
(*                     defaultProcessor                                    *)
(*   lifecycle.ts      startErrorFeedbackDaemon / stopErrorFeedbackDaemon  *)
(*                                                                         *)
(* A file "error-<id>.json" is named by the number <id>; the ascending     *)
(* order of the numbers is the lexicographic order of the file names.      *)
(* Every await of the daemon at which another handler of the event loop    *)
(* can run separates two actions of the model.                             *)
(***************************************************************************)
EXTENDS Integers, Sequences, FiniteSets, TLC

\* ------------------------------------------------------------------ bounds
MaxFiles == 2
MaxRetries == 2
MaxDaemons == 2
MaxLifecycleFiles == 1
MaxLifecycleRetries == 1
MaxProcesses == 2
MaxPollTicks == 3
MaxAge == 2
MaxCleanupFiles == 4
MaxOrderFiles == 3

\* ------------------------------------------------------- program constants
MAX_BATCH_SIZE == 10
DEFAULT_MAX_RETRIES == 3
DebounceTicks == 2

Files == 1..MaxFiles
Daemons == 1..MaxDaemons
NoDaemon == 0

VARIABLES
  pending,        \* <root>/pending:           file name -> record
  processed,      \* <root>/processed:         file name -> record
  invalid,        \* <root>/processed/invalid: file name -> record
  issued,         \* the identifiers randomUUID has returned so far
  stateFile,      \* the persisted daemon state file
  activeDaemon,   \* lifecycle.ts: let activeDaemon
  instance,       \* per instance: "none" | "starting" | "started"
  options,        \* per instance: the processor it was constructed with
  state,          \* per instance: this.state
  stopped,        \* per instance: this.stopped
  processing,     \* per instance: this.processing
  watcher,        \* per instance: this.watcher # null
  pollTimer,      \* per instance: this.pollTimer # null
  debounceTimer,  \* per instance: this.debounceTimer # null
  fsEvent,        \* per instance: an add/change event its watcher has not delivered yet
  run,            \* per instance: where its processBatch call stands
  handled,        \* per instance: what the run in flight did so far, item by item
  listed,         \* per instance: the pending directory as the run in flight listed it
  process,        \* process.pid of the process the daemon code runs in
  timing,         \* per instance: the poll interval, and the time left on each timer
  tmpFiles,       \* <root>/pending/*.tmp: identifier -> the record being written
  age,            \* modification age of the files of <root>/processed
  reply           \* what the last call of the writer or lifecycle API answered its caller

vars == <<pending, processed, invalid, issued, stateFile, activeDaemon, instance, options,
          state, stopped, processing, watcher, pollTimer, debounceTimer, fsEvent,
          run, handled, listed, process, timing, tmpFiles, age, reply>>

dirs == <<pending, processed, invalid>>

\* What no handler of the daemon and no writer touches.
periphery == <<process, reply, tmpFiles, age>>

\* ------------------------------------------------------------------ records
\* ErrorBundleResolution; NoResolution stands for an undefined resolution field.
NoResolution == [resolved |-> FALSE, retryTriggered |-> FALSE, action |-> "none"]

\* The resolution the catch block of processBundle writes.
FailureResolution ==
  [resolved |-> FALSE, retryTriggered |-> FALSE, action |-> "processing failed"]

\* What a processor call can do: return a resolution or throw.
ProcessorResults ==
  { [threw |-> FALSE, resolved |-> r, retryTriggered |-> t] : r, t \in BOOLEAN }
    \cup { [threw |-> TRUE, resolved |-> FALSE, retryTriggered |-> FALSE] }

\* The record writeErrorBundle builds: id 0 stands for a missing identifier.
NewBundle(id, maxRetries) ==
  [id |-> id, version |-> 1, retryCount |-> 0, maxRetries |-> maxRetries,
   processed |-> FALSE, processedAt |-> FALSE, resolution |-> NoResolution]

\* What readErrorBundle returns for a file it cannot use.
NullBundle ==
  [id |-> 0, version |-> 0, retryCount |-> 0, maxRetries |-> 0,
   processed |-> FALSE, processedAt |-> FALSE, resolution |-> NoResolution]

\* ErrorFeedbackDaemonState as the constructor sets it.
\* (pid 0 stands for an undefined pid field.)
StoppedState ==
  [status |-> "stopped", bundlesProcessed |-> 0, bundlesResolved |-> 0, bundlesFailed |-> 0,
   pid |-> 0]

\* ErrorFeedbackDaemonState as start() sets it: pid: process.pid.
RunningState ==
  [status |-> "running", bundlesProcessed |-> 0, bundlesResolved |-> 0, bundlesFailed |-> 0,
   pid |-> process]

\* readDaemonState returns null: there is no state file.
NoStateFile ==
  [status |-> "absent", bundlesProcessed |-> 0, bundlesResolved |-> 0, bundlesFailed |-> 0,
   pid |-> 0]

\* Time is counted in quanta of DEBOUNCE_MS / DebounceTicks. No timer was set:
\* no poll interval, nothing left to wait on either timer, no trigger yet, no
\* setTimeout handle alive.
NoTiming == [interval |-> 0, poll |-> 0, debounce |-> 0, quiet |-> 0, timeouts |-> 0]

\* No call of the lifecycle API has answered yet.
NoReply ==
  [op |-> "none", handle |-> 0, probe |-> "none", state |-> NoStateFile, args |-> <<>>]

IdleRun == [pc |-> "idle", batch |-> <<>>, idx |-> 0, bundle |-> NullBundle]

\* ------------------------------------------------------------ directories
Put(dir, f, rec) == [g \in DOMAIN dir \cup {f} |-> IF g = f THEN rec ELSE dir[g]]

Remove(dir, f) == [g \in DOMAIN dir \ {f} |-> dir[g]]

EmptyDir == [g \in {} |-> NullBundle]

RECURSIVE SortedSeq(_)
SortedSeq(S) ==
  IF S = {} THEN <<>>
  ELSE LET m == CHOOSE x \in S : \A y \in S : x <= y
       IN <<m>> \o SortedSeq(S \ {m})

\* listPendingBundles: the error-*.json names of pending, sorted.
ListPendingBundles == SortedSeq(DOMAIN pending)

\* A batch that is the whole listing.
BatchUncapped(files) == files

\* pendingFiles.slice(0, MAX_BATCH_SIZE)
Batch(files) ==
  IF Len(files) <= MAX_BATCH_SIZE THEN files ELSE SubSeq(files, 1, MAX_BATCH_SIZE)

\* readErrorBundle: null for a missing file, a missing id or a version other than 1.
ReadErrorBundle(f) ==
  IF f \notin DOMAIN pending THEN NullBundle
  ELSE IF pending[f].id = 0 \/ pending[f].version # 1 THEN NullBundle
  ELSE pending[f]

\* A watcher of the pending directory sees a file added or changed.
Notify == [d \in Daemons |-> fsEvent[d] \/ watcher[d]]

\* ------------------------------------------------------------------- init
\* No daemon instance exists, no state file was written yet, no write is under way.
NoDaemonYet ==
  /\ stateFile = NoStateFile
  /\ activeDaemon = NoDaemon
  /\ instance = [d \in Daemons |-> "none"]
  /\ options = [d \in Daemons |-> "default"]
  /\ state = [d \in Daemons |-> StoppedState]
  /\ stopped = [d \in Daemons |-> FALSE]
  /\ processing = [d \in Daemons |-> FALSE]
  /\ watcher = [d \in Daemons |-> FALSE]
  /\ pollTimer = [d \in Daemons |-> FALSE]
  /\ debounceTimer = [d \in Daemons |-> FALSE]
  /\ fsEvent = [d \in Daemons |-> FALSE]
  /\ run = [d \in Daemons |-> IdleRun]
  /\ handled = [d \in Daemons |-> <<>>]
  /\ listed = [d \in Daemons |-> EmptyDir]
  /\ process = 1
  /\ timing = [d \in Daemons |-> NoTiming]
  /\ tmpFiles = EmptyDir
  /\ age = [g \in {} |-> 0]
  /\ reply = NoReply

Init ==
  /\ pending = EmptyDir
  /\ processed = EmptyDir
  /\ invalid = EmptyDir
  /\ issued = {}
  /\ NoDaemonYet

\* ----------------------------------------------------------------- writer
\* writeErrorBundle: a fresh identifier, retryCount 0, then the rename into pending.
WriteErrorBundle(f, maxRetries) ==
  /\ f \notin issued
  /\ issued' = issued \cup {f}
  /\ pending' = Put(pending, f, NewBundle(f, maxRetries))
  /\ fsEvent' = Notify
  /\ UNCHANGED <<periphery, timing, processed, invalid, stateFile, activeDaemon, instance, options, state,
                 stopped, processing, watcher, pollTimer, debounceTimer, run, handled,
                 listed>>

\* writeErrorBundle with the record's createdAt: the time of the call, counted in
\* calls. The file name is built from the fresh identifier alone.
WriteErrorBundleAt(f, maxRetries) ==
  /\ f \notin issued
  /\ issued' = issued \cup {f}
  /\ pending' = Put(pending, f,
                    NewBundle(f, maxRetries) @@ [createdAt |-> Cardinality(issued) + 1])
  /\ fsEvent' = Notify
  /\ UNCHANGED <<periphery, timing, processed, invalid, stateFile, activeDaemon, instance,
                 options, state, stopped, processing, watcher, pollTimer, debounceTimer, run,
                 handled, listed>>

\* The content of a file that fs.writeFile has opened (and so emptied) and not yet
\* written in full: no JSON document, readErrorBundle fails to parse it.
Truncated == [NullBundle EXCEPT !.version = -1]

\* writeErrorBundle step by step. First up to the await of fs.writeFile(tmpPath):
\* a fresh identifier, the record, the temporary file next to the item file.
WriterBegin(f, maxRetries) ==
  /\ f \notin issued
  /\ issued' = issued \cup {f}
  /\ tmpFiles' = Put(tmpFiles, f, NewBundle(f, maxRetries))
  /\ UNCHANGED <<dirs, stateFile, activeDaemon, instance, options, state, stopped, processing,
                 watcher, pollTimer, debounceTimer, fsEvent, run, handled, listed, process,
                 timing, age, reply>>

\* Then fs.rename(tmpPath, filePath): the complete record appears under the item name.
WriterRename(f) ==
  /\ f \in DOMAIN tmpFiles
  /\ pending' = Put(pending, f, tmpFiles[f])
  /\ tmpFiles' = Remove(tmpFiles, f)
  /\ fsEvent' = Notify
  /\ reply' = [NoReply EXCEPT !.op = "written", !.handle = f]
  /\ UNCHANGED <<processed, invalid, issued, stateFile, activeDaemon, instance, options,
                 state, stopped, processing, watcher, pollTimer, debounceTimer, run, handled,
                 listed, process, timing, age>>

\* Or fs.writeFile or fs.rename throws: the catch unlinks the temporary file and
\* throws to the caller.
WriterFail(f) ==
  /\ f \in DOMAIN tmpFiles
  /\ tmpFiles' = Remove(tmpFiles, f)
  /\ reply' = [NoReply EXCEPT !.op = "write failed", !.handle = f]
  /\ UNCHANGED <<dirs, issued, stateFile, activeDaemon, instance, options, state, stopped,
                 processing, watcher, pollTimer, debounceTimer, fsEvent, run, handled,
                 listed, process, timing, age>>

\* A file that readErrorBundle rejects arrives in pending: its record has no
\* identifier, or a version other than 1.
InvalidRecords(f) ==
  { NewBundle(0, 0), [NewBundle(f, 0) EXCEPT !.version = 2] }

DepositInvalid(f, rec) ==
  /\ f \notin issued
  /\ issued' = issued \cup {f}
  /\ pending' = Put(pending, f, rec)
  /\ fsEvent' = Notify
  /\ UNCHANGED <<periphery, timing, processed, invalid, stateFile, activeDaemon, instance, options, state,
                 stopped, processing, watcher, pollTimer, debounceTimer, run, handled,
                 listed>>

\* -------------------------------------------------------------- scheduling
\* scheduleBatch: nothing once stopped; else the debounce timer is (re)armed.
ScheduleBatch(d) ==
  IF stopped[d] THEN debounceTimer ELSE [debounceTimer EXCEPT ![d] = TRUE]

\* ---------------------------------------------------------------- lifecycle
\* startErrorFeedbackDaemon up to the first await of daemon.start(): the check of
\* activeDaemon, new ErrorFeedbackDaemon(options), this.stopped = false.
StartCall(d, processor) ==
  /\ ~(activeDaemon # NoDaemon /\ state[activeDaemon].status = "running")
  /\ instance[d] = "none"
  /\ \A e \in Daemons : e < d => instance[e] # "none"
  /\ instance' = [instance EXCEPT ![d] = "starting"]
  /\ options' = [options EXCEPT ![d] = processor]
  /\ state' = [state EXCEPT ![d] = StoppedState]
  /\ stopped' = [stopped EXCEPT ![d] = FALSE]
  /\ UNCHANGED <<periphery, timing, dirs, issued, stateFile, activeDaemon, processing, watcher, pollTimer,
                 debounceTimer, fsEvent, run, handled, listed>>

\* The rest of daemon.start() and of startErrorFeedbackDaemon: the state is reset
\* and persisted, the watcher (when chokidar starts) and the poll timer are set
\* up, the first batch is scheduled, activeDaemon is assigned.
StartDaemon(d, watcherStarts) ==
  /\ instance[d] = "starting"
  /\ instance' = [instance EXCEPT ![d] = "started"]
  /\ state' = [state EXCEPT ![d] = RunningState]
  /\ stateFile' = RunningState
  /\ watcher' = [watcher EXCEPT ![d] = watcherStarts]
  /\ fsEvent' = [fsEvent EXCEPT ![d] = watcherStarts /\ DOMAIN pending # {}]
  /\ pollTimer' = [pollTimer EXCEPT ![d] = TRUE]
  /\ debounceTimer' = ScheduleBatch(d)
  /\ activeDaemon' = d
  /\ UNCHANGED <<periphery, dirs, issued, options, stopped, processing, run, handled, listed>>

StartComplete(d, watcherStarts) == StartDaemon(d, watcherStarts) /\ UNCHANGED timing

\* stopErrorFeedbackDaemon with an active daemon: daemon.stop(), activeDaemon = null.
\* An instance that is stopped, dropped by the lifecycle manager and has no run
\* in flight can never act again: its slot is handed back ("gone").
StopDaemon ==
  /\ activeDaemon # NoDaemon
  /\ LET d == activeDaemon
         last == [state[d] EXCEPT !.status = "stopped"]
         gone == ~processing[d]
     IN /\ stopped' = [stopped EXCEPT ![d] = ~gone]
        /\ watcher' = [watcher EXCEPT ![d] = FALSE]
        /\ fsEvent' = [fsEvent EXCEPT ![d] = FALSE]
        /\ pollTimer' = [pollTimer EXCEPT ![d] = FALSE]
        /\ debounceTimer' = [debounceTimer EXCEPT ![d] = FALSE]
        /\ stateFile' = last
        /\ state' = [state EXCEPT ![d] = IF gone THEN StoppedState ELSE last]
        /\ instance' = [instance EXCEPT ![d] = IF gone THEN "none" ELSE @]
        /\ options' = [options EXCEPT ![d] = IF gone THEN "default" ELSE @]
  /\ activeDaemon' = NoDaemon
  /\ UNCHANGED <<periphery, timing, dirs, issued, processing, run, handled, listed>>

\* stopErrorFeedbackDaemon step by step. First daemon.stop() up to its await of
\* watcher.close(): this.stopped = true.
StopBegin ==
  /\ activeDaemon # NoDaemon
  /\ instance[activeDaemon] = "started"
  /\ stopped' = [stopped EXCEPT ![activeDaemon] = TRUE]
  /\ instance' = [instance EXCEPT ![activeDaemon] = "stopping"]
  /\ UNCHANGED <<periphery, timing, dirs, issued, stateFile, activeDaemon, options, state,
                 processing, watcher, pollTimer, debounceTimer, fsEvent, run, handled,
                 listed>>

\* Then the rest of daemon.stop() (watcher = null, both timers cleared, status
\* stopped, persistState) and activeDaemon = null.
StopEnd ==
  /\ activeDaemon # NoDaemon
  /\ instance[activeDaemon] = "stopping"
  /\ LET d == activeDaemon
         last == [state[d] EXCEPT !.status = "stopped"]
         gone == ~processing[d]
     IN /\ stopped' = [stopped EXCEPT ![d] = ~gone]
        /\ watcher' = [watcher EXCEPT ![d] = FALSE]
        /\ fsEvent' = [fsEvent EXCEPT ![d] = FALSE]
        /\ pollTimer' = [pollTimer EXCEPT ![d] = FALSE]
        /\ debounceTimer' = [debounceTimer EXCEPT ![d] = FALSE]
        /\ stateFile' = last
        /\ state' = [state EXCEPT ![d] = IF gone THEN StoppedState ELSE last]
        /\ instance' = [instance EXCEPT ![d] = IF gone THEN "none" ELSE "started"]
        /\ options' = [options EXCEPT ![d] = IF gone THEN "default" ELSE @]
  /\ activeDaemon' = NoDaemon
  /\ UNCHANGED <<periphery, timing, dirs, issued, processing, run, handled, listed>>

\* A second start() of the instance the lifecycle manager holds: its guard
\* (status === "running") does not hold it back, the state is reset and persisted.
StartAgainResets ==
  /\ activeDaemon # NoDaemon
  /\ state[activeDaemon].status = "running"
  /\ state' = [state EXCEPT ![activeDaemon] = RunningState]
  /\ stateFile' = RunningState
  /\ reply' = [NoReply EXCEPT !.op = "start", !.handle = activeDaemon]
  /\ UNCHANGED <<dirs, issued, activeDaemon, instance, options, stopped, processing,
                 watcher, pollTimer, debounceTimer, fsEvent, run, handled, listed, process, timing, tmpFiles, age>>

\* startErrorFeedbackDaemon while activeDaemon is running: return activeDaemon.
StartWhileRunning ==
  /\ activeDaemon # NoDaemon
  /\ state[activeDaemon].status = "running"
  /\ reply' = [NoReply EXCEPT !.op = "start", !.handle = activeDaemon]
  /\ UNCHANGED <<dirs, issued, stateFile, activeDaemon, instance, options, state, stopped,
                 processing, watcher, pollTimer, debounceTimer, fsEvent, run, handled,
                 listed, process, timing, tmpFiles, age>>

\* stopErrorFeedbackDaemon without an active daemon: return.
StopAbsent ==
  /\ activeDaemon = NoDaemon
  /\ reply' = [NoReply EXCEPT !.op = "stop"]
  /\ UNCHANGED <<dirs, issued, stateFile, activeDaemon, instance, options, state, stopped,
                 processing, watcher, pollTimer, debounceTimer, fsEvent, run, handled,
                 listed, process, timing, tmpFiles, age>>

\* What process.kill(pid, 0) can do: return ("alive"), throw because there is no
\* such process ("gone"), throw because the process is another user's ("denied").
\* The pid of the calling process itself is alive.
Probes(pid) == IF pid = process THEN {"alive"} ELSE {"alive", "gone", "denied"}

\* getErrorFeedbackDaemonStatus probes the persisted pid.
Probing == activeDaemon = NoDaemon /\ stateFile.status = "running" /\ stateFile.pid # 0

\* A status query that reports the persisted state without the probe.
StatusTrustingFile(probe) ==
  IF activeDaemon # NoDaemon THEN state[activeDaemon]
  ELSE IF stateFile.status = "absent" THEN StoppedState
  ELSE stateFile

\* getErrorFeedbackDaemonStatus: the state of the active daemon, else the
\* persisted state, downgraded to stopped when it says running and the probe of
\* its pid throws, else the zero state.
GetErrorFeedbackDaemonStatus(probe) ==
  IF activeDaemon # NoDaemon THEN state[activeDaemon]
  ELSE IF stateFile.status = "absent" THEN StoppedState
  ELSE IF stateFile.status = "running" /\ stateFile.pid # 0
    THEN IF probe = "alive" THEN stateFile ELSE [stateFile EXCEPT !.status = "stopped"]
    ELSE stateFile

StatusQuery(probe) ==
  /\ probe \in Probes(stateFile.pid)
  /\ reply' = [op |-> "status", handle |-> activeDaemon,
               probe |-> IF Probing THEN probe ELSE "none",
               state |-> GetErrorFeedbackDaemonStatus(probe), args |-> <<>>]
  /\ UNCHANGED <<dirs, issued, stateFile, activeDaemon, instance, options, state, stopped,
                 processing, watcher, pollTimer, debounceTimer, fsEvent, run, handled,
                 listed, process, timing, tmpFiles, age>>

\* The process dies (no run is mid-way through a file operation) and the code is
\* loaded in a new process: the files stay, nothing in memory does.
Crash ==
  /\ process < MaxProcesses
  /\ process' = process + 1
  /\ activeDaemon' = NoDaemon
  /\ instance' = [d \in Daemons |-> "none"]
  /\ options' = [d \in Daemons |-> "default"]
  /\ state' = [d \in Daemons |-> StoppedState]
  /\ stopped' = [d \in Daemons |-> FALSE]
  /\ processing' = [d \in Daemons |-> FALSE]
  /\ watcher' = [d \in Daemons |-> FALSE]
  /\ pollTimer' = [d \in Daemons |-> FALSE]
  /\ debounceTimer' = [d \in Daemons |-> FALSE]
  /\ fsEvent' = [d \in Daemons |-> FALSE]
  /\ run' = [d \in Daemons |-> IdleRun]
  /\ handled' = [d \in Daemons |-> <<>>]
  /\ listed' = [d \in Daemons |-> EmptyDir]
  /\ timing' = [d \in Daemons |-> NoTiming]
  /\ reply' = NoReply
  /\ UNCHANGED <<dirs, issued, stateFile, tmpFiles, age>>

\* ----------------------------------------------------------------- triggers
\* The watcher's "add" / "change" handler.
WatcherFires(d) ==
  /\ watcher[d]
  /\ fsEvent[d]
  /\ fsEvent' = [fsEvent EXCEPT ![d] = FALSE]
  /\ debounceTimer' = ScheduleBatch(d)
  /\ UNCHANGED <<periphery, dirs, issued, stateFile, activeDaemon, instance, options, state, stopped,
                 processing, watcher, pollTimer, run, handled, listed>>

WatcherEvent(d) == WatcherFires(d) /\ UNCHANGED timing

\* The setInterval callback of start().
PollFires(d) ==
  /\ pollTimer[d]
  /\ debounceTimer' = ScheduleBatch(d)
  /\ UNCHANGED <<periphery, dirs, issued, stateFile, activeDaemon, instance, options, state, stopped,
                 processing, watcher, pollTimer, fsEvent, run, handled, listed>>

PollTick(d) == PollFires(d) /\ UNCHANGED timing

\* ---------------------------------------------------------------- batch run
\* A guard of processBatch that lets a stopped daemon start a run.
RunGuardIgnoringStop(d) == processing[d]

\* if (this.processing || this.stopped) return
RunGuard(d) == processing[d] \/ stopped[d]

\* The first part of processBatch, entered when the debounce timer expires: the
\* guard, this.processing = true and the listing. With nothing pending the run
\* is over at once (finally: processing = false, persistState).
ProcessBatch(d) ==
  /\ debounceTimer[d]
  /\ debounceTimer' = [debounceTimer EXCEPT ![d] = FALSE]
  /\ IF RunGuard(d)
       THEN UNCHANGED <<stateFile, processing, run, listed>>
       ELSE IF ListPendingBundles = <<>>
         THEN /\ stateFile' = state[d]
              /\ UNCHANGED <<processing, run, listed>>
         ELSE /\ processing' = [processing EXCEPT ![d] = TRUE]
              /\ run' = [run EXCEPT ![d] = [pc |-> "loop", batch |-> Batch(ListPendingBundles),
                                            idx |-> 1, bundle |-> NullBundle]]
              /\ listed' = [listed EXCEPT ![d] = pending]
              /\ UNCHANGED stateFile
  /\ UNCHANGED <<periphery, dirs, issued, activeDaemon, instance, options, state, stopped, watcher,
                 pollTimer, fsEvent, handled>>

DebounceExpire(d) == ProcessBatch(d) /\ UNCHANGED timing

\* processBatch step by step. First from the expiry of the debounce timer up to
\* the await of listPendingBundles(): the guard, this.processing = true.
ProcessBatchListing(d) ==
  /\ debounceTimer[d]
  /\ debounceTimer' = [debounceTimer EXCEPT ![d] = FALSE]
  /\ IF RunGuard(d)
       THEN UNCHANGED <<processing, run>>
       ELSE /\ processing' = [processing EXCEPT ![d] = TRUE]
            /\ run' = [run EXCEPT ![d].pc = "list"]
  /\ UNCHANGED <<periphery, timing, dirs, issued, stateFile, activeDaemon, instance, options,
                 state, stopped, watcher, pollTimer, fsEvent, handled, listed>>

\* An instance that is stopped and dropped by the lifecycle manager has, once its
\* run is over, nothing left that could act: its slot is handed back. Any other
\* instance stays, with s as its state.
HandBack(d, s) ==
  LET gone == stopped[d] /\ activeDaemon # d
  IN /\ instance' = [instance EXCEPT ![d] = IF gone THEN "none" ELSE @]
     /\ options' = [options EXCEPT ![d] = IF gone THEN "default" ELSE @]
     /\ state' = [state EXCEPT ![d] = IF gone THEN StoppedState ELSE s]
     /\ stopped' = [stopped EXCEPT ![d] = IF gone THEN FALSE ELSE @]

\* Then listPendingBundles() returns: with nothing pending the run is over
\* (finally: processing = false, persistState), else the loop begins.
ListingReturns(d) ==
  /\ run[d].pc = "list"
  /\ IF ListPendingBundles = <<>>
       THEN /\ stateFile' = state[d]
            /\ processing' = [processing EXCEPT ![d] = FALSE]
            /\ run' = [run EXCEPT ![d] = IdleRun]
            /\ HandBack(d, state[d])
            /\ UNCHANGED listed
       ELSE /\ run' = [run EXCEPT ![d] = [pc |-> "loop", batch |-> Batch(ListPendingBundles),
                                          idx |-> 1, bundle |-> NullBundle]]
            /\ listed' = [listed EXCEPT ![d] = pending]
            /\ UNCHANGED <<stateFile, processing, instance, options, state, stopped>>
  /\ UNCHANGED <<periphery, timing, dirs, issued, activeDaemon, watcher, pollTimer,
                 debounceTimer, fsEvent, handled>>

\* A catch of processBatch that leaves the status as it is.
AfterFatalUnmarked(s) == s

\* catch (err) of processBatch: this.state.status = "error"
AfterFatal(s) == [s EXCEPT !.status = "error"]

\* Or listPendingBundles() throws (readdir fails with an error other than ENOENT):
\* the catch logs "batch processing error" and marks the state, finally:
\* processing = false, persistState.
ListingFails(d) ==
  /\ run[d].pc = "list"
  /\ HandBack(d, AfterFatal(state[d]))
  /\ stateFile' = AfterFatal(state[d])
  /\ processing' = [processing EXCEPT ![d] = FALSE]
  /\ run' = [run EXCEPT ![d] = IdleRun]
  /\ reply' = [NoReply EXCEPT !.op = "batch processing error", !.handle = d]
  /\ UNCHANGED <<dirs, issued, activeDaemon, watcher, pollTimer, debounceTimer, fsEvent,
                 handled, listed, process, timing, tmpFiles, age>>

\* moveBundleToProcessed without the stamp (processed, processedAt).
MoveWithoutStamp(b) ==
  /\ processed' = Put(processed, b.id, b)
  /\ pending' = Remove(pending, b.id)
  /\ invalid' = invalid

\* moveBundleToProcessed without the unlink of the pending file.
MoveWithoutUnlink(b) ==
  /\ processed' = Put(processed, b.id, [b EXCEPT !.processed = TRUE, !.processedAt = TRUE])
  /\ UNCHANGED <<pending, invalid>>

\* moveBundleToProcessed: the stamped record is written to processed, then the
\* pending file of that identifier is unlinked.
MoveBundleToProcessed(b) ==
  /\ processed' = Put(processed, b.id, [b EXCEPT !.processed = TRUE, !.processedAt = TRUE])
  /\ pending' = Remove(pending, b.id)
  /\ invalid' = invalid

\* A rejected file deleted instead of renamed.
QuarantineByDelete(f) ==
  /\ pending' = Remove(pending, f)
  /\ UNCHANGED <<processed, invalid>>

\* The rename of a rejected file into processed/invalid (a failed rename is ignored).
Quarantine(f) ==
  /\ invalid' = IF f \in DOMAIN pending THEN Put(invalid, f, pending[f]) ELSE invalid
  /\ pending' = Remove(pending, f)
  /\ processed' = processed

\* What a run notes about an item it is done with.
Note(f, b, kind, res) == [file |-> f, bundle |-> b, kind |-> kind, result |-> res]

NoResult == [threw |-> FALSE, resolved |-> FALSE, retryTriggered |-> FALSE]

\* One turn of the for loop of processBatch up to its next await of the
\* processor: a rejected file is quarantined, a record already marked processed
\* is moved, any other record is handed to the processor.
LoopStep(d) ==
  /\ run[d].pc = "loop"
  /\ run[d].idx <= Len(run[d].batch)
  /\ ~stopped[d]
  /\ LET f == run[d].batch[run[d].idx]
         b == ReadErrorBundle(f)
     IN IF b = NullBundle
          THEN /\ Quarantine(f)
               /\ run' = [run EXCEPT ![d].idx = @ + 1]
               /\ handled' = [handled EXCEPT ![d] = Append(@, Note(f, b, "quarantine", NoResult))]
          ELSE IF b.processed
            THEN /\ MoveBundleToProcessed(b)
                 /\ run' = [run EXCEPT ![d].idx = @ + 1]
                 /\ handled' = [handled EXCEPT ![d] = Append(@, Note(f, b, "catchup", NoResult))]
            ELSE /\ run' = [run EXCEPT ![d].pc = "await", ![d].bundle = b]
                 /\ UNCHANGED <<dirs, issued, handled>>
  /\ UNCHANGED <<periphery, timing, issued, stateFile, activeDaemon, instance, options, state, stopped,
                 processing, watcher, pollTimer, debounceTimer, fsEvent, listed>>

\* defaultProcessor: never resolves, asks for a retry while under the ceiling.
DefaultProcessor(b) ==
  [threw |-> FALSE, resolved |-> FALSE, retryTriggered |-> b.retryCount < b.maxRetries]

\* The processors a daemon is constructed with: none given (the default one), one
\* that always returns unresolved and asks for a retry, one that always returns
\* unresolved and asks for none, or any other ("custom").
AlwaysRetry == [threw |-> FALSE, resolved |-> FALSE, retryTriggered |-> TRUE]

NeverRetry == [threw |-> FALSE, resolved |-> FALSE, retryTriggered |-> FALSE]

\* this.processor = options.processor ?? defaultProcessor
Outcomes(d, b) ==
  IF options[d] = "default" THEN {DefaultProcessor(b)}
  ELSE IF options[d] = "retrying" THEN {AlwaysRetry}
  ELSE IF options[d] = "failing" THEN {NeverRetry}
  ELSE ProcessorResults

\* The resolution record a returned result puts into bundle.resolution.
ResolutionOf(res) ==
  [resolved |-> res.resolved, retryTriggered |-> res.retryTriggered, action |-> "processor"]

\* The retry test without its ceiling.
RetryBranchNoCeiling(b, res) == ~res.threw /\ ~res.resolved /\ res.retryTriggered

\* The retry test with <= for <.
RetryBranchOffByOne(b, res) ==
  ~res.threw /\ ~res.resolved /\ res.retryTriggered /\ b.retryCount <= b.maxRetries

\* processBundle, the else-if of the retry:
\* !resolution.resolved && resolution.retryTriggered && bundle.retryCount < bundle.maxRetries
RetryBranch(b, res) ==
  ~res.threw /\ ~res.resolved /\ res.retryTriggered /\ b.retryCount < b.maxRetries

\* processBundle without bundle.retryCount += 1.
BundleAfterNoIncrement(b, res) ==
  IF res.threw THEN [b EXCEPT !.resolution = FailureResolution]
  ELSE [b EXCEPT !.resolution = ResolutionOf(res)]

\* The bundle object as processBundle leaves it.
BundleAfter(b, res) ==
  IF res.threw THEN [b EXCEPT !.resolution = FailureResolution]
  ELSE IF RetryBranch(b, res)
    THEN [b EXCEPT !.resolution = ResolutionOf(res), !.retryCount = @ + 1]
    ELSE [b EXCEPT !.resolution = ResolutionOf(res)]

\* Counters that leave an unresolved item without a retry uncounted as failed.
CountersAfterFailedUncounted(s, b, res) ==
  IF res.threw THEN [s EXCEPT !.bundlesFailed = @ + 1]
  ELSE IF res.resolved
    THEN [s EXCEPT !.bundlesProcessed = @ + 1, !.bundlesResolved = @ + 1]
    ELSE [s EXCEPT !.bundlesProcessed = @ + 1]

\* The counters as processBundle leaves them.
CountersAfter(s, b, res) ==
  IF res.threw THEN [s EXCEPT !.bundlesFailed = @ + 1]
  ELSE IF res.resolved
    THEN [s EXCEPT !.bundlesProcessed = @ + 1, !.bundlesResolved = @ + 1]
  ELSE IF RetryBranch(b, res)
    THEN [s EXCEPT !.bundlesProcessed = @ + 1]
    ELSE [s EXCEPT !.bundlesProcessed = @ + 1, !.bundlesFailed = @ + 1]

\* fs.writeFile(pendingPath, JSON.stringify(bundle)) of the retry branch.
WriteBackToPending(b) ==
  /\ pending' = Put(pending, b.id, b)
  /\ UNCHANGED <<processed, invalid>>

\* A loop that a throwing processor makes give up its batch.
NextIndexAbortOnThrow(d, res) ==
  IF res.threw THEN Len(run[d].batch) + 1 ELSE run[d].idx + 1

\* for (const filePath of batch): processBundle catches what the processor
\* throws, so the loop goes on with the next file after either outcome.
NextIndex(d, res) == run[d].idx + 1

\* processBundle from the return (or the throw) of the processor on, then the
\* end of this turn of the loop.
ProcessorReturn(d, res) ==
  /\ run[d].pc = "await"
  /\ res \in Outcomes(d, run[d].bundle)
  /\ LET b == run[d].bundle
     IN /\ state' = [state EXCEPT ![d] = CountersAfter(@, b, res)]
        /\ IF RetryBranch(b, res)
             THEN WriteBackToPending(BundleAfter(b, res)) /\ fsEvent' = Notify
             ELSE MoveBundleToProcessed(BundleAfter(b, res)) /\ UNCHANGED fsEvent
        /\ handled' = [handled EXCEPT ![d] = Append(@, Note(b.id, b, "processor", res))]
  /\ run' = [run EXCEPT ![d].pc = "loop", ![d].idx = NextIndex(d, res),
                        ![d].bundle = NullBundle]
  /\ UNCHANGED <<periphery, timing, issued, stateFile, activeDaemon, instance, options, stopped, processing,
                 watcher, pollTimer, debounceTimer, listed>>

\* processBundle where it does not take the retry branch.
ProcessorReturnMove(d, res) ==
  /\ ~RetryBranch(run[d].bundle, res)
  /\ ProcessorReturn(d, res)

\* processBundle where it takes the retry branch, step by step. First up to the
\* await of fs.writeFile(pendingPath): the item file is opened for writing.
WriteBackBegin(d, res) ==
  /\ run[d].pc = "await"
  /\ res \in Outcomes(d, run[d].bundle)
  /\ RetryBranch(run[d].bundle, res)
  /\ LET b == run[d].bundle
     IN /\ state' = [state EXCEPT ![d] = CountersAfter(@, b, res)]
        /\ pending' = Put(pending, b.id, Truncated)
        /\ handled' = [handled EXCEPT ![d] = Append(@, Note(b.id, b, "processor", res))]
        /\ run' = [run EXCEPT ![d].pc = "write", ![d].bundle = BundleAfter(b, res)]
  /\ UNCHANGED <<periphery, timing, processed, invalid, issued, stateFile, activeDaemon,
                 instance, options, stopped, processing, watcher, pollTimer, debounceTimer,
                 fsEvent, listed>>

\* Then the write is through: the item file holds the updated record.
WriteBackEnd(d) ==
  /\ run[d].pc = "write"
  /\ WriteBackToPending(run[d].bundle)
  /\ fsEvent' = Notify
  /\ run' = [run EXCEPT ![d].pc = "loop", ![d].idx = @ + 1, ![d].bundle = NullBundle]
  /\ UNCHANGED <<periphery, timing, issued, stateFile, activeDaemon, instance, options,
                 state, stopped, processing, watcher, pollTimer, debounceTimer, handled,
                 listed>>

\* processBundle where onBundleProcessed is not reached: the retry branch
\* returns before it, and a throw of the processor goes to the catch.
ProcessorReturnNoCallback(d, res) ==
  /\ RetryBranch(run[d].bundle, res) \/ res.threw
  /\ ProcessorReturn(d, res)

\* processBundle where it reaches onBundleProcessed, step by step. First the
\* counters and moveBundleToProcessed(bundle), up to the call of the callback.
MoveBeforeCallback(d, res) ==
  /\ run[d].pc = "await"
  /\ res \in Outcomes(d, run[d].bundle)
  /\ ~res.threw
  /\ ~RetryBranch(run[d].bundle, res)
  /\ LET b == run[d].bundle
     IN /\ state' = [state EXCEPT ![d] = CountersAfter(@, b, res)]
        /\ MoveBundleToProcessed(BundleAfter(b, res))
        /\ handled' = [handled EXCEPT ![d] = Append(@, Note(b.id, b, "processor", res))]
        /\ run' = [run EXCEPT ![d].pc = "callback", ![d].bundle = BundleAfter(b, res)]
  /\ UNCHANGED <<periphery, timing, issued, stateFile, activeDaemon, instance, options,
                 stopped, processing, watcher, pollTimer, debounceTimer, fsEvent, listed>>

\* Then this.options.onBundleProcessed?.(bundle, resolution) returns (or none was
\* given): the end of this turn of the loop.
CallbackReturns(d) ==
  /\ run[d].pc = "callback"
  /\ run' = [run EXCEPT ![d].pc = "loop", ![d].idx = @ + 1, ![d].bundle = NullBundle]
  /\ UNCHANGED <<periphery, timing, dirs, issued, stateFile, activeDaemon, instance,
                 options, state, stopped, processing, watcher, pollTimer, debounceTimer,
                 fsEvent, handled, listed>>

\* Or the callback throws, inside the try: the catch counts a failure, replaces
\* bundle.resolution and calls moveBundleToProcessed(bundle) again.
CallbackThrows(d) ==
  /\ run[d].pc = "callback"
  /\ state' = [state EXCEPT ![d].bundlesFailed = @ + 1]
  /\ MoveBundleToProcessed([run[d].bundle EXCEPT !.resolution = FailureResolution])
  /\ run' = [run EXCEPT ![d].pc = "loop", ![d].idx = @ + 1, ![d].bundle = NullBundle]
  /\ UNCHANGED <<periphery, timing, issued, stateFile, activeDaemon, instance, options,
                 stopped, processing, watcher, pollTimer, debounceTimer, fsEvent, handled,
                 listed>>

\* processBundle where it takes the retry branch.
ProcessorReturnRetry(d, res) ==
  /\ RetryBranch(run[d].bundle, res)
  /\ ProcessorReturn(d, res)

\* processBundle where it moves the item, with moveBundleToProcessed step by
\* step. First up to the await of fs.writeFile(destPath): the stamped record is in
\* processed, the file in pending is as it was.
MoveWritten(d, res) ==
  /\ run[d].pc = "await"
  /\ res \in Outcomes(d, run[d].bundle)
  /\ ~RetryBranch(run[d].bundle, res)
  /\ LET b == run[d].bundle
     IN /\ state' = [state EXCEPT ![d] = CountersAfter(@, b, res)]
        /\ processed' = Put(processed, b.id,
                            [BundleAfter(b, res) EXCEPT !.processed = TRUE, !.processedAt = TRUE])
        /\ handled' = [handled EXCEPT ![d] = Append(@, Note(b.id, b, "processor", res))]
        /\ run' = [run EXCEPT ![d].pc = "move"]
  /\ UNCHANGED <<periphery, timing, pending, invalid, issued, stateFile, activeDaemon,
                 instance, options, stopped, processing, watcher, pollTimer, debounceTimer,
                 fsEvent, listed>>

\* Then fs.unlink(srcPath): the file in pending is gone; the end of this turn of
\* the loop.
MoveUnlink(d) ==
  /\ run[d].pc = "move"
  /\ pending' = Remove(pending, run[d].bundle.id)
  /\ run' = [run EXCEPT ![d].pc = "loop", ![d].idx = @ + 1, ![d].bundle = NullBundle]
  /\ UNCHANGED <<periphery, timing, processed, invalid, issued, stateFile, activeDaemon,
                 instance, options, state, stopped, processing, watcher, pollTimer,
                 debounceTimer, fsEvent, handled, listed>>

\* A finally block that keeps the guard.
FinallyHoldingGuard(d) ==
  /\ stateFile' = state[d]
  /\ UNCHANGED processing

\* finally of processBatch: this.processing = false, persistState().
Finally(d) ==
  /\ stateFile' = state[d]
  /\ processing' = [processing EXCEPT ![d] = FALSE]

\* The end of processBatch: the loop is through its batch or was left because
\* the daemon is stopped; then the finally block.
RunEnd(d) ==
  /\ run[d].pc = "loop"
  /\ run[d].idx > Len(run[d].batch) \/ stopped[d]
  /\ Finally(d)
  /\ run' = [run EXCEPT ![d] = IdleRun]
  /\ handled' = [handled EXCEPT ![d] = <<>>]
  /\ listed' = [listed EXCEPT ![d] = EmptyDir]
  /\ LET gone == stopped[d] /\ activeDaemon # d
     IN /\ instance' = [instance EXCEPT ![d] = IF gone THEN "none" ELSE @]
        /\ options' = [options EXCEPT ![d] = IF gone THEN "default" ELSE @]
        /\ state' = [state EXCEPT ![d] = IF gone THEN StoppedState ELSE @]
        /\ stopped' = [stopped EXCEPT ![d] = IF gone THEN FALSE ELSE @]
  /\ UNCHANGED <<periphery, timing, dirs, issued, activeDaemon, watcher, pollTimer, debounceTimer, fsEvent>>

\* ------------------------------------------------------------------ cleanup
\* now - stat.mtimeMs of a file of processed, in units of time; a file that
\* moveBundleToProcessed has just written is 0 old.
AgeOf(f) == IF f \in DOMAIN age THEN age[f] ELSE 0

\* Time passes: every file of processed is one unit older.
TimePasses ==
  /\ DOMAIN processed # {}
  /\ \A f \in DOMAIN processed : AgeOf(f) < MaxAge
  /\ age' = [f \in DOMAIN processed |-> AgeOf(f) + 1]
  /\ UNCHANGED <<dirs, issued, stateFile, activeDaemon, instance, options, state, stopped,
                 processing, watcher, pollTimer, debounceTimer, fsEvent, run, handled,
                 listed, process, timing, tmpFiles, reply>>

\* A cutoff test that also takes a file exactly maxAge old.
ExpiredOrAtCutoff(f, maxAge) == AgeOf(f) >= maxAge

\* now - stat.mtimeMs > maxAgeMs
Expired(f, maxAge) == AgeOf(f) > maxAge

\* cleanupProcessedBundles(maxAge): every *.json entry of processed older than
\* maxAge is unlinked and counted; for the entries in failing, stat or unlink
\* throws, which is ignored. The subdirectory "invalid" is no *.json entry.
CleanupProcessedBundles(maxAge, failing) ==
  LET cleaned == { f \in DOMAIN processed : Expired(f, maxAge) /\ f \notin failing }
  IN /\ processed' = [f \in DOMAIN processed \ cleaned |-> processed[f]]
     /\ age' = [f \in DOMAIN age \ cleaned |-> age[f]]
     /\ reply' = [NoReply EXCEPT !.op = "cleanup", !.handle = Cardinality(cleaned),
                                 !.args = <<maxAge, failing>>]
     /\ UNCHANGED <<pending, invalid, issued, stateFile, activeDaemon, instance, options,
                    state, stopped, processing, watcher, pollTimer, debounceTimer, fsEvent,
                    run, handled, listed, process, timing, tmpFiles>>

\* ------------------------------------------------------------------- time
\* The poll intervals a daemon is given: shorter than the debounce delay, or longer.
PollIntervals == (1..MaxPollTicks) \ {DebounceTicks}

\* A timer whose time has come: its callback is the next thing it does.
PollDue(d) == pollTimer[d] /\ timing[d].poll = 0

DebounceDue(d) == debounceTimer[d] /\ timing[d].debounce = 0

\* A scheduleBatch that leaves an armed timer alone: the delay runs from the
\* first trigger, not from the last.
RearmedUnlessArmed(d) ==
  IF stopped[d] \/ debounceTimer[d] THEN timing[d].debounce ELSE DebounceTicks

\* scheduleBatch: setTimeout(..., DEBOUNCE_MS) unless stopped.
Rearmed(d) == IF stopped[d] THEN timing[d].debounce ELSE DebounceTicks

\* scheduleBatch on the clock: unless stopped, clearTimeout of the armed timer
\* (one handle less), setTimeout (one more, the full delay ahead), and the last
\* trigger is now.
Scheduled(d) ==
  IF stopped[d] THEN timing[d]
  ELSE [timing[d] EXCEPT !.debounce = Rearmed(d),
                         !.quiet = 0,
                         !.timeouts = (IF debounceTimer[d] THEN @ - 1 ELSE @) + 1]

\* daemon.start() without a watcher (chokidar fails to start, or never delivers):
\* setInterval(..., pollInterval) and the first scheduleBatch.
TimedStart(d, interval) ==
  /\ StartDaemon(d, FALSE)
  /\ timing' = [timing EXCEPT ![d] = [Scheduled(d) EXCEPT !.interval = interval,
                                                          !.poll = interval]]

\* daemon.start() with a watcher that delivers events.
TimedStartWatching(d, interval) ==
  /\ StartDaemon(d, TRUE)
  /\ timing' = [timing EXCEPT ![d] = [Scheduled(d) EXCEPT !.interval = interval,
                                                          !.poll = interval]]

\* The watcher's handler, whenever chokidar delivers the event.
TimedWatcherEvent(d) ==
  /\ WatcherFires(d)
  /\ timing' = [timing EXCEPT ![d] = Scheduled(d)]

\* The setInterval callback at its time: scheduleBatch, and the next interval begins.
TimedPollTick(d) ==
  /\ PollDue(d)
  /\ PollFires(d)
  /\ timing' = [timing EXCEPT ![d] = [Scheduled(d) EXCEPT !.poll = timing[d].interval]]

\* The setTimeout callback of scheduleBatch at its time: its handle is spent.
TimedDebounceExpire(d) ==
  /\ DebounceDue(d)
  /\ ProcessBatch(d)
  /\ timing' = [timing EXCEPT ![d].timeouts = @ - 1]

\* One quantum of time passes: no timer is due, every armed timer has one less to
\* go, the last trigger is one quantum further back (counted up to the delay).
Tick ==
  /\ \E d \in Daemons : pollTimer[d] \/ debounceTimer[d]
  /\ \A d \in Daemons : ~PollDue(d) /\ ~DebounceDue(d)
  /\ timing' = [d \in Daemons |->
                  [timing[d] EXCEPT !.poll = IF pollTimer[d] THEN @ - 1 ELSE @,
                                    !.debounce = IF debounceTimer[d] THEN @ - 1 ELSE @,
                                    !.quiet = IF pollTimer[d] /\ @ < DebounceTicks
                                                THEN @ + 1 ELSE @]]
  /\ UNCHANGED <<periphery, dirs, issued, stateFile, activeDaemon, instance, options, state,
                 stopped, processing, watcher, pollTimer, debounceTimer, fsEvent, run,
                 handled, listed>>

\* ---------------------------------------------------------- specifications
\* One consumer of the queue directory at a time: a daemon is started only when
\* no other instance is starting, running or still finishing a run.
SingleConsumer == \A d \in Daemons : instance[d] = "none"

Environment ==
  \/ \E f \in Files, m \in 0..MaxRetries : WriteErrorBundle(f, m)
  \/ \E f \in Files : \E rec \in InvalidRecords(f) : DepositInvalid(f, rec)

Engine ==
  \/ \E d \in Daemons, w \in BOOLEAN : StartComplete(d, w)
  \/ StopDaemon
  \/ \E d \in Daemons : WatcherEvent(d)
  \/ \E d \in Daemons : PollTick(d)
  \/ \E d \in Daemons : DebounceExpire(d)
  \/ \E d \in Daemons : LoopStep(d)
  \/ \E d \in Daemons : \E res \in ProcessorResults : ProcessorReturn(d, res)
  \/ \E d \in Daemons : RunEnd(d)

StartAlone(d, p) == SingleConsumer /\ StartCall(d, p)

Next ==
  \/ Environment
  \/ Engine
  \/ \E d \in Daemons, p \in {"default", "custom"} : StartAlone(d, p)

Spec == Init /\ [][Next]_vars

\* Every interleaving of the lifecycle calls: the command line starts the daemon
\* with the default processor (commands/error-feedback.ts passes no processor).
NextLifecycle ==
  \/ \E f \in 1..MaxLifecycleFiles, m \in 0..MaxLifecycleRetries : WriteErrorBundle(f, m)
  \/ Engine
  \/ \E d \in Daemons : StartCall(d, "default")

SpecLifecycle == Init /\ [][NextLifecycle]_vars

\* The steps of a daemon between its start and its stop.
Daemon ==
  \/ \E d \in Daemons, w \in BOOLEAN : StartComplete(d, w)
  \/ \E d \in Daemons : WatcherEvent(d)
  \/ \E d \in Daemons : PollTick(d)
  \/ \E d \in Daemons : DebounceExpire(d)
  \/ \E d \in Daemons : LoopStep(d)
  \/ \E d \in Daemons : \E res \in ProcessorResults : ProcessorReturn(d, res)
  \/ \E d \in Daemons : RunEnd(d)

\* The daemon with stop() taken step by step: triggers and an armed debounce
\* timer can fire while stop() awaits the closing of the watcher.
NextStop ==
  \/ Environment
  \/ Daemon
  \/ StopBegin
  \/ StopEnd
  \/ \E d \in Daemons, p \in {"default", "custom"} : StartAlone(d, p)

SpecStop == Init /\ [][NextStop]_vars

\* The lifecycle API as a caller can use it, in any interleaving, across a crash
\* of the process.
NextApi ==
  \/ \E f \in 1..MaxLifecycleFiles, m \in 0..MaxLifecycleRetries : WriteErrorBundle(f, m)
  \/ Engine
  \/ \E d \in Daemons, p \in {"default", "custom"} : StartAlone(d, p)
  \/ StartWhileRunning
  \/ StopAbsent
  \/ \E probe \in {"alive", "gone", "denied"} : StatusQuery(probe)
  \/ Crash

SpecApi == Init /\ [][NextApi]_vars

\* ----------------------------------------------------------------- scenarios
MaxOverflow == 1

\* Scenario A: n items with maxRetries = 0 (n within the batch size) are pending,
\* then a daemon is started whose processor returns unresolved and asks for no retry.
InitFailing ==
  /\ \E n \in 1..MAX_BATCH_SIZE :
       /\ pending = [f \in 1..n |-> NewBundle(f, 0)]
       /\ issued = 1..n
  /\ processed = EmptyDir
  /\ invalid = EmptyDir
  /\ NoDaemonYet

NextFailing ==
  \/ Daemon
  \/ \E d \in Daemons, p \in {"default", "failing"} : StartAlone(d, p)

SpecFailing == InitFailing /\ [][NextFailing]_vars

\* Scenario B: one item with retryCount = 0 (maxRetries given, or the default) is
\* pending, then a daemon is started whose processor asks for a retry every time,
\* as the default processor does under the ceiling.
InitRetrying ==
  /\ \E n \in (1..MaxRetries) \cup {DEFAULT_MAX_RETRIES} : pending = [f \in {1} |-> NewBundle(f, n)]
  /\ issued = {1}
  /\ processed = EmptyDir
  /\ invalid = EmptyDir
  /\ NoDaemonYet

NextRetrying ==
  \/ Daemon
  \/ \E d \in Daemons, p \in {"default", "retrying"} : StartAlone(d, p)

SpecRetrying == InitRetrying /\ [][NextRetrying]_vars

\* A backlog: up to MaxOverflow files more than one batch holds are pending, one of
\* them a file readErrorBundle rejects, the others items with maxRetries = 0; then
\* a daemon is started, and it may be stopped.
InitBacklog ==
  /\ \E n \in 1..(MAX_BATCH_SIZE + MaxOverflow) : \E k \in 1..n :
       \E rec \in InvalidRecords(k) :
         /\ pending = [f \in 1..n |-> IF f = k THEN rec ELSE NewBundle(f, 0)]
         /\ issued = 1..n
  /\ processed = EmptyDir
  /\ invalid = EmptyDir
  /\ NoDaemonYet

NextBacklog ==
  \/ Daemon
  \/ StopDaemon
  \/ \E d \in Daemons : StartAlone(d, "default")

SpecBacklog == InitBacklog /\ [][NextBacklog]_vars

\* The writes into pending step by step: the writer's temporary file and rename,
\* the daemon's write-back of a retried item.
NextWrites ==
  \/ \E f \in Files, m \in 0..MaxLifecycleRetries : WriterBegin(f, m)
  \/ \E f \in Files : WriterRename(f)
  \/ \E f \in Files : WriterFail(f)
  \/ \E d \in Daemons, p \in {"default", "custom"} : StartAlone(d, p)
  \/ \E d \in Daemons, w \in BOOLEAN : StartComplete(d, w)
  \/ \E d \in Daemons : WatcherEvent(d)
  \/ \E d \in Daemons : PollTick(d)
  \/ \E d \in Daemons : DebounceExpire(d)
  \/ \E d \in Daemons : LoopStep(d)
  \/ \E d \in Daemons : \E res \in ProcessorResults : ProcessorReturnMove(d, res)
  \/ \E d \in Daemons : \E res \in ProcessorResults : WriteBackBegin(d, res)
  \/ \E d \in Daemons : WriteBackEnd(d)
  \/ \E d \in Daemons : RunEnd(d)

SpecWrites == Init /\ [][NextWrites]_vars

\* The daemon with the completion callback as its own step: onBundleProcessed
\* returns or throws.
NextCallbacks ==
  \/ \E f \in Files, m \in 0..MaxLifecycleRetries : WriteErrorBundle(f, m)
  \/ \E d \in Daemons, p \in {"default", "custom"} : StartAlone(d, p)
  \/ \E d \in Daemons, w \in BOOLEAN : StartComplete(d, w)
  \/ \E d \in Daemons : WatcherEvent(d)
  \/ \E d \in Daemons : PollTick(d)
  \/ \E d \in Daemons : DebounceExpire(d)
  \/ \E d \in Daemons : LoopStep(d)
  \/ \E d \in Daemons : \E res \in ProcessorResults : ProcessorReturnNoCallback(d, res)
  \/ \E d \in Daemons : \E res \in ProcessorResults : MoveBeforeCallback(d, res)
  \/ \E d \in Daemons : CallbackReturns(d)
  \/ \E d \in Daemons : CallbackThrows(d)
  \/ \E d \in Daemons : RunEnd(d)

SpecCallbacks == Init /\ [][NextCallbacks]_vars

\* Crash and restart: the move to processed is two steps, and the process can
\* die between any two steps.
NextRecovery ==
  \/ \E f \in 1..MaxLifecycleFiles, m \in 0..MaxLifecycleRetries : WriteErrorBundle(f, m)
  \/ \E d \in Daemons, p \in {"default", "custom"} : StartAlone(d, p)
  \/ \E d \in Daemons, w \in BOOLEAN : StartComplete(d, w)
  \/ \E d \in Daemons : WatcherEvent(d)
  \/ \E d \in Daemons : PollTick(d)
  \/ \E d \in Daemons : DebounceExpire(d)
  \/ \E d \in Daemons : LoopStep(d)
  \/ \E d \in Daemons : \E res \in ProcessorResults : ProcessorReturnRetry(d, res)
  \/ \E d \in Daemons : \E res \in ProcessorResults : MoveWritten(d, res)
  \/ \E d \in Daemons : MoveUnlink(d)
  \/ \E d \in Daemons : RunEnd(d)
  \/ Crash

SpecRecovery == Init /\ [][NextRecovery]_vars

\* The cleanup of processed: a daemon fills processed, time passes, and
\* cleanupProcessedBundles is called with any cutoff, with stat or unlink failing
\* for none or one of the files.
NextCleanup ==
  \/ \E f \in 1..MaxCleanupFiles : WriteErrorBundle(f, 0)
  \/ StartAlone(1, "default")
  \/ Daemon
  \/ TimePasses
  \/ \E maxAge \in 0..(MaxAge - 1) :
       \E failing \in {{}} \cup {{f} : f \in DOMAIN processed} :
         CleanupProcessedBundles(maxAge, failing)

SpecCleanup == Init /\ [][NextCleanup]_vars

\* The poll backstop: items are pending, then a daemon is started whose watcher
\* never delivers an event; nothing more is written and the daemon is not stopped.
\* Time passes, a timer that is due fires, and a processor that is called returns.
InitPolling ==
  /\ \E n \in 1..MaxFiles : \E m \in 0..MaxLifecycleRetries :
       /\ pending = [f \in 1..n |-> NewBundle(f, m)]
       /\ issued = 1..n
  /\ processed = EmptyDir
  /\ invalid = EmptyDir
  /\ NoDaemonYet

NextPolling ==
  \/ \E d \in Daemons, p \in {"default", "custom"} : StartAlone(d, p)
  \/ \E d \in Daemons, i \in PollIntervals : TimedStart(d, i)
  \/ \E d \in Daemons : TimedPollTick(d)
  \/ \E d \in Daemons : TimedDebounceExpire(d)
  \/ Tick
  \/ \E d \in Daemons : LoopStep(d)
  \/ \E d \in Daemons : \E res \in ProcessorResults : ProcessorReturn(d, res)
  \/ \E d \in Daemons : RunEnd(d)

FairPolling ==
  /\ WF_vars(Tick)
  /\ \A d \in Daemons :
       /\ WF_vars(TimedPollTick(d))
       /\ WF_vars(TimedDebounceExpire(d))
       /\ WF_vars(LoopStep(d))
       /\ WF_vars(\E res \in ProcessorResults : ProcessorReturn(d, res))
       /\ WF_vars(RunEnd(d))

SpecPolling == InitPolling /\ [][NextPolling]_vars /\ FairPolling

\* The debounce on the clock: files arrive at any time, the watcher delivers its
\* events at any time, the poll timer and the debounce timer fire when due.
NextDebounce ==
  \/ \E f \in Files : WriteErrorBundle(f, 0)
  \/ \E d \in Daemons : StartAlone(d, "default")
  \/ \E d \in Daemons, i \in PollIntervals : TimedStartWatching(d, i)
  \/ \E d \in Daemons : TimedWatcherEvent(d)
  \/ \E d \in Daemons : TimedPollTick(d)
  \/ \E d \in Daemons : TimedDebounceExpire(d)
  \/ Tick
  \/ \E d \in Daemons : LoopStep(d)
  \/ \E d \in Daemons : \E res \in ProcessorResults : ProcessorReturn(d, res)
  \/ \E d \in Daemons : RunEnd(d)

SpecDebounce == Init /\ [][NextDebounce]_vars

\* The order within a run: items are created one after the other, each under the
\* identifier randomUUID gives it, and a daemon with the default processor runs.
NextOrder ==
  \/ \E f \in 1..MaxOrderFiles, m \in 0..MaxLifecycleRetries : WriteErrorBundleAt(f, m)
  \/ \E d \in Daemons : StartAlone(d, "default")
  \/ Daemon

SpecOrder == Init /\ [][NextOrder]_vars

\* A pending directory that can become unreadable: the listing of a run returns
\* or throws.
NextFatal ==
  \/ \E f \in Files : WriteErrorBundle(f, 0)
  \/ \E d \in Daemons : StartAlone(d, "default")
  \/ \E d \in Daemons, w \in BOOLEAN : StartComplete(d, w)
  \/ \E d \in Daemons : WatcherEvent(d)
  \/ \E d \in Daemons : PollTick(d)
  \/ \E d \in Daemons : ProcessBatchListing(d)
  \/ \E d \in Daemons : ListingReturns(d)
  \/ \E d \in Daemons : ListingFails(d)
  \/ \E d \in Daemons : LoopStep(d)
  \/ \E d \in Daemons : \E res \in ProcessorResults : ProcessorReturn(d, res)
  \/ \E d \in Daemons : RunEnd(d)

SpecFatal == Init /\ [][NextFatal]_vars

\* The in-flight guard over every way a run can end: the listing returns nothing
\* or throws, the loop runs through its batch or is cut short by a stop.
NextGuard ==
  \/ NextFatal
  \/ StopDaemon

SpecGuard == Init /\ [][NextGuard]_vars

\* ------------------------------------------------------------------ claims
\* The run of d is through: its loop is over, only the finally block is left.
RunOver(d) ==
  /\ run[d].pc = "loop"
  /\ run[d].idx > Len(run[d].batch) \/ stopped[d]

\* The notes of the run of d about items it handed to the processor.
Processed(d) == { i \in DOMAIN handled[d] : handled[d][i].kind = "processor" }

AskedRetry(res) == ~res.threw /\ ~res.resolved /\ res.retryTriggered

\* Where item f has a file.
Locations(f) ==
  (IF f \in DOMAIN pending THEN {"pending"} ELSE {})
    \cup (IF f \in DOMAIN processed THEN {"processed"} ELSE {})
    \cup (IF f \in DOMAIN invalid THEN {"invalid"} ELSE {})

\* A record that says it was processed: the flag, the time and a resolution.
Stamped(rec) == rec.processed /\ rec.processedAt /\ rec.resolution # NoResolution

\* C1 (retry bound): an item handed to the processor with retryCount < maxRetries
\* for which the processor returns resolved = false, retryTriggered = true is, at
\* the end of that run, still in pending with its stored retryCount one higher
\* than before the run, and is not in processed.
C1_RetryBound ==
  \A d \in Daemons : RunOver(d) =>
    \A i \in Processed(d) :
      LET e == handled[d][i]
      IN (e.bundle.retryCount < e.bundle.maxRetries /\ AskedRetry(e.result)) =>
           /\ e.file \in DOMAIN pending
           /\ e.file \in DOMAIN listed[d]
           /\ pending[e.file].retryCount = listed[d][e.file].retryCount + 1
           /\ e.file \notin DOMAIN processed

C1_Witness ==
  \E d \in Daemons : RunOver(d) /\
    \E i \in Processed(d) :
      /\ handled[d][i].bundle.retryCount < handled[d][i].bundle.maxRetries
      /\ handled[d][i].bundle.retryCount > 0
      /\ AskedRetry(handled[d][i].result)

\* C2 (exhaustion): an item handed to the processor with retryCount = maxRetries
\* is in processed and no longer in pending at the end of that run, whatever the
\* processor returns.
C2_Exhaustion ==
  \A d \in Daemons : RunOver(d) =>
    \A i \in Processed(d) :
      LET e == handled[d][i]
      IN e.bundle.retryCount = e.bundle.maxRetries =>
           /\ e.file \in DOMAIN processed
           /\ e.file \notin DOMAIN pending

C2_Witness ==
  \E d \in Daemons : RunOver(d) /\
    \E i \in Processed(d) :
      /\ handled[d][i].bundle.retryCount = handled[d][i].bundle.maxRetries
      /\ handled[d][i].bundle.maxRetries > 0
      /\ AskedRetry(handled[d][i].result)

\* The stored record of item f: its file in pending or in processed.
HasRecord(f) == f \in DOMAIN processed \/ (f \in DOMAIN pending /\ pending[f].id # 0 /\ pending[f].version = 1)

Record(f) == IF f \in DOMAIN pending THEN pending[f] ELSE processed[f]

C4_BoundedRetryLoop ==
  \A d \in Daemons : instance[d] # "none" =>
    LET n == state[d].bundlesProcessed
        calls == n + (IF run[d].pc = "await" THEN 1 ELSE 0)
        N == Record(1).maxRetries
    IN /\ calls <= N + 1
       /\ n <= N => /\ Locations(1) = {"pending"}
                    /\ pending[1].retryCount = n
       /\ n = N + 1 => /\ Locations(1) = {"processed"}
                       /\ processed[1].retryCount = N
                       /\ ~processed[1].resolution.resolved
                       /\ processed[1].processed
       /\ RunOver(d) => Len(handled[d]) = 1 /\ handled[d][1].kind = "processor"
       /\ state[d].bundlesFailed = (IF n = N + 1 THEN 1 ELSE 0)

\* The item of the default ceiling moved by the last call of a processor that
\* asked for a retry every time.
C4_Witness ==
  \E d \in Daemons :
    /\ options[d] = "retrying"
    /\ 1 \in DOMAIN processed
    /\ processed[1].maxRetries = DEFAULT_MAX_RETRIES
    /\ state[d].bundlesProcessed = DEFAULT_MAX_RETRIES + 1
    /\ RunOver(d)

C6_TerminalFailureAccounting ==
  \A d \in Daemons : RunOver(d) =>
    /\ pending = EmptyDir
    /\ DOMAIN processed = issued
    /\ invalid = EmptyDir
    /\ \A f \in issued : Stamped(processed[f]) /\ ~processed[f].resolution.resolved
    /\ state[d].bundlesFailed = Cardinality(issued)
    /\ state[d].bundlesResolved = 0
    /\ state[d].bundlesProcessed = Cardinality(issued)

\* The run over a full batch is through.
C6_Witness ==
  \E d \in Daemons :
    /\ RunOver(d)
    /\ Len(handled[d]) = MAX_BATCH_SIZE
    /\ options[d] = "failing"

\* A record readErrorBundle rejects: no identifier, or a version other than 1.
Rejected(rec) == rec.id = 0 \/ rec.version # 1

C8_LocationExclusive ==
  \A d \in Daemons : RunOver(d) =>
    \A f \in issued : Cardinality(Locations(f)) = 1

\* A run ends with one item retried, hence in pending, and another in processed.
C8_Witness ==
  \E d \in Daemons :
    /\ RunOver(d)
    /\ \E f \in issued : Locations(f) = {"processed"} /\ f \in DOMAIN listed[d]
    /\ \E f \in issued : Locations(f) = {"pending"} /\ pending[f].retryCount > 0

\* C9 as claimed: at the end of every batch run a stored record is stamped
\* (processed = true, processedAt and resolution set) if and only if its file is
\* in processed or processed/invalid, and no record in pending carries a
\* resolution or processed = true.
C9_StampedIffProcessedAsClaimed ==
  \A d \in Daemons : RunOver(d) =>
    /\ \A f \in DOMAIN processed : Stamped(processed[f])
    /\ \A f \in DOMAIN invalid : Stamped(invalid[f])
    /\ \A f \in DOMAIN pending :
         ~pending[f].processed /\ pending[f].resolution = NoResolution

\* C9 as amended: at the end of every batch run a stored record is stamped if and
\* only if its file is in processed; a record in pending or processed/invalid has
\* processed = false and no processedAt; a record in pending carries a resolution
\* exactly when it was written back for a retry, and that is the resolution that
\* asked for the retry.
C9_StampedIffProcessed ==
  \A d \in Daemons : RunOver(d) =>
    /\ \A f \in DOMAIN processed : Stamped(processed[f])
    /\ \A f \in DOMAIN invalid : ~invalid[f].processed /\ ~invalid[f].processedAt
    /\ \A f \in DOMAIN pending :
         /\ ~pending[f].processed
         /\ ~pending[f].processedAt
         /\ pending[f].resolution # NoResolution <=> pending[f].retryCount > 0
         /\ pending[f].resolution # NoResolution =>
              pending[f].resolution =
                [resolved |-> FALSE, retryTriggered |-> TRUE, action |-> "processor"]

\* A run ends with a retried item in pending and an item in processed.
C9_Witness ==
  \E d \in Daemons :
    /\ RunOver(d)
    /\ \E f \in DOMAIN pending : pending[f].retryCount > 0
    /\ DOMAIN processed # {}

\* C10: at most one batch run is executing at any time in the process.
C10_AtMostOneRun == Cardinality({ d \in Daemons : processing[d] }) <= 1

\* C11: a trigger that arrives while a batch run is executing is not dropped. A
\* trigger arms the debounce timer; the timer armed during a run stays armed for
\* as long as that run executes (and the daemon is not stopped), so that it
\* starts the one follow-up run once the run has completed.
C11_TriggerNotDropped ==
  [][\A d \in Daemons :
       (processing[d] /\ debounceTimer[d] /\ processing'[d] /\ ~stopped'[d])
         => debounceTimer'[d]]_vars

\* An instance with something armed: a watcher, a poll timer or a debounce timer.
Armed(d) == watcher[d] \/ pollTimer[d] \/ debounceTimer[d]

\* C12 (single active instance): in every reachable state at most one daemon
\* instance of the process has an armed poll timer, watcher or debounce timer.
C12_SingleActiveInstance == Cardinality({ d \in Daemons : Armed(d) }) <= 1

\* Everything but the answer a call of the lifecycle API gives.
program == <<pending, processed, invalid, issued, stateFile, activeDaemon, instance,
             options, state, stopped, processing, watcher, pollTimer, debounceTimer,
             fsEvent, run, handled, listed, process, timing, tmpFiles, age>>

\* C13: a start call answered while the active daemon is running returns that
\* daemon and changes nothing (same instance, counters and state file not reset,
\* no timer or watcher added); a stop call answered while no daemon is active
\* changes nothing (no state-file write, no status change).
C13_NoOpStartStop ==
  [][/\ (reply' # reply /\ reply'.op = "start" /\ activeDaemon # NoDaemon
           /\ state[activeDaemon].status = "running")
        => (reply'.handle = activeDaemon /\ UNCHANGED program)
     /\ (reply' # reply /\ reply'.op = "stop" /\ activeDaemon = NoDaemon)
        => UNCHANGED program]_vars

\* A start call was answered with the running daemon, whose counters are not zero
\* and whose timers are armed.
C13_Witness ==
  /\ reply.op = "start"
  /\ reply.handle # NoDaemon
  /\ reply.handle = activeDaemon
  /\ state[activeDaemon].status = "running"
  /\ state[activeDaemon].bundlesProcessed > 0
  /\ pollTimer[activeDaemon]
  /\ stateFile.bundlesProcessed > 0

\* C14 (crash detection): a status query answered while no daemon is active in
\* the process and the state file says running with the pid of a process that is
\* gone reports the persisted state with status stopped, and leaves the state
\* file as it is.
C14_CrashDetection ==
  [][(reply' # reply /\ reply'.op = "status" /\ reply'.probe = "gone"
        /\ activeDaemon = NoDaemon /\ stateFile.status = "running" /\ stateFile.pid # 0)
       => /\ reply'.state = [stateFile EXCEPT !.status = "stopped"]
          /\ reply'.state.status = "stopped"
          /\ UNCHANGED program]_vars

\* After a crash of the process that ran the daemon, a query found the state file
\* saying running with counters above zero, probed the pid and found it gone.
C14_Witness ==
  /\ reply.op = "status"
  /\ reply.probe = "gone"
  /\ reply.state.status = "stopped"
  /\ reply.state.bundlesProcessed > 0
  /\ stateFile.status = "running"
  /\ stateFile.pid # process
  /\ activeDaemon = NoDaemon

\* C15: after stop() is called on a daemon no batch run of that daemon starts
\* (watcher events, poll ticks and a debounce timer armed before the stop start
\* none); when stop() is through, the watcher and both timers are gone, the status
\* is stopped and the state file says so.
C15_NoRunAfterStop ==
  /\ [][\A d \in Daemons : stopped[d] => ~(~processing[d] /\ processing'[d])]_vars
  /\ [][\A d \in Daemons : (instance[d] = "stopping" /\ instance'[d] # "stopping") =>
          /\ stateFile'.status = "stopped"
          /\ ~Armed(d)'
          /\ activeDaemon' = NoDaemon]_vars
  /\ [](\A d \in Daemons : (stopped[d] /\ instance[d] # "stopping") =>
          state[d].status = "stopped" /\ ~Armed(d))

\* stop() was called on a daemon whose debounce timer is armed, with a file
\* pending and no run in flight; the watcher has an event to deliver.
C15_Witness ==
  \E d \in Daemons :
    /\ stopped[d]
    /\ instance[d] = "stopping"
    /\ debounceTimer[d]
    /\ pollTimer[d]
    /\ fsEvent[d]
    /\ ~processing[d]
    /\ DOMAIN pending # {}

\* C16: stopping the daemon does not interrupt a batch run in flight: a run that
\* is executing when stop() is called is through only when it has handled every
\* item of its batch.
C16_StopDoesNotInterruptRun ==
  \A d \in Daemons : (RunOver(d) /\ stopped[d]) => Len(handled[d]) = Len(run[d].batch)

\* C17 (poll backstop liveness): while a daemon is running, every valid item in
\* pending eventually reaches processed without any watcher event, whatever the
\* poll interval, given that the processor always returns and nothing more arrives.
C17_PollBackstop ==
  \A f \in Files :
    ((\E d \in Daemons : instance[d] = "started" /\ ~stopped[d]) /\ f \in DOMAIN pending)
      ~> (f \in DOMAIN processed)

\* C18: no reader ever finds a partially written item file: every file of
\* pending holds a complete record at all times (after the writer's first write
\* and during and after the daemon's retry write-back), a failed first write
\* leaves neither an item file nor a temporary file, and listPendingBundles
\* returns no temporary file.
C18_NoPartialItemFile ==
  /\ \A f \in DOMAIN pending : pending[f] # Truncated
  /\ reply.op = "write failed" =>
       (reply.handle \notin DOMAIN pending /\ reply.handle \notin DOMAIN tmpFiles)
  /\ \A i \in DOMAIN ListPendingBundles :
       ListPendingBundles[i] \in DOMAIN pending

\* C19 (prune scope): a call of cleanupProcessedBundles(maxAge) deletes exactly the
\* files of processed older than maxAge, but for those on which stat or unlink
\* fails; it leaves every other file of processed as it is, leaves pending and
\* processed/invalid unchanged, and returns the number of files it deleted.
C19_PruneScope ==
  [][(reply' # reply /\ reply'.op = "cleanup") =>
       LET maxAge == reply'.args[1]
           failing == reply'.args[2]
           old == { f \in DOMAIN processed : AgeOf(f) > maxAge }
       IN /\ DOMAIN processed' = DOMAIN processed \ (old \ failing)
          /\ \A f \in DOMAIN processed' : processed'[f] = processed[f] /\ AgeOf(f)' = AgeOf(f)
          /\ pending' = pending
          /\ invalid' = invalid
          /\ reply'.handle = Cardinality(old \ failing)]_vars

\* A cleanup deleted an old file, kept a younger one, kept an old one whose
\* unlink failed, with a file in pending.
C19_Witness ==
  /\ reply.op = "cleanup"
  /\ reply.handle > 0
  /\ \E f \in DOMAIN processed : f \in reply.args[2] /\ AgeOf(f) > reply.args[1]
  /\ \E f \in DOMAIN processed : AgeOf(f) <= reply.args[1]
  /\ DOMAIN pending # {}

\* C20 (processed records are final): once a record of an item is in processed,
\* no step changes it while it is there: its resolution and processedAt stay as
\* first written.
C20_ProcessedRecordFinal ==
  [][\A f \in DOMAIN processed :
       f \in DOMAIN processed' => processed'[f] = processed[f]]_vars

\* C21 (crash recovery): an item whose record is in processed is never handed to
\* the processor again, also not after a crash between the write to processed and
\* the unlink in pending: the restarted daemon only removes the stale file.
C21_CrashRecovery ==
  \A d \in Daemons :
    run[d].pc = "await" => run[d].bundle.id \notin DOMAIN processed

\* C22 (debounce): a daemon has at most one armed debounce timer; a trigger
\* (start, watcher event, poll tick) of a daemon that is not stopped leaves one
\* timer armed with the full delay ahead of it; and a batch run starts only from
\* an armed timer when the full delay has passed since the last trigger.
C22_Debounce ==
  /\ [](\A d \in Daemons :
          /\ timing[d].timeouts <= 1
          /\ (timing[d].timeouts = 1) = debounceTimer[d]
          /\ (pollTimer[d] /\ ~stopped[d] /\ timing[d].quiet = 0) =>
               (debounceTimer[d] /\ timing[d].debounce = DebounceTicks))
  /\ [][\A d \in Daemons :
          (~processing[d] /\ processing'[d]) =>
            (debounceTimer[d] /\ timing[d].quiet = DebounceTicks)]_vars

\* A watcher event has come one quantum after the start or a poll tick: the
\* timer armed then was cancelled, the one armed now has the full delay to go.
C22_Witness ==
  \E d \in Daemons :
    /\ debounceTimer[d]
    /\ timing[d].timeouts = 1
    /\ timing[d].quiet = 0
    /\ timing[d].debounce = DebounceTicks
    /\ timing[d].interval > DebounceTicks
    /\ timing[d].poll = timing[d].interval - 1

\* C23 (order within a run): the items a run has handled so far were handled in
\* ascending order of their file names, and in the order of their creation: of
\* two items handled in one run the one created first was handled first.
C23_ArrivalOrder ==
  \A d \in Daemons : \A i, j \in DOMAIN handled[d] :
    i < j =>
      /\ handled[d][i].file < handled[d][j].file
      /\ handled[d][i].bundle.createdAt < handled[d][j].bundle.createdAt

\* The files a run of d found in pending beyond its batch.
BeyondCap(d) ==
  DOMAIN listed[d] \ { run[d].batch[i] : i \in DOMAIN run[d].batch }

\* C24 (batch cap): a run takes the first MAX_BATCH_SIZE files of the sorted
\* listing and no more, handles only files of that batch, and at every point of
\* the run each file beyond the cap is in pending as the run found it, in no
\* other directory, and in the listing a later run would get.
C24_BatchCap ==
  \A d \in Daemons : run[d].pc # "idle" =>
    /\ Len(run[d].batch) <= MAX_BATCH_SIZE
    /\ run[d].batch = Batch(SortedSeq(DOMAIN listed[d]))
    /\ Len(handled[d]) <= MAX_BATCH_SIZE
    /\ \A i \in DOMAIN handled[d] : handled[d][i].file = run[d].batch[i]
    /\ \A f \in BeyondCap(d) :
         /\ f \in DOMAIN pending
         /\ pending[f] = listed[d][f]
         /\ f \notin DOMAIN processed \cup DOMAIN invalid
         /\ \E i \in DOMAIN ListPendingBundles : ListPendingBundles[i] = f

\* A run that found more files than a batch holds is through its whole batch, and
\* a file beyond the cap is still pending.
C24_Witness ==
  \E d \in Daemons :
    /\ RunOver(d)
    /\ Len(handled[d]) = MAX_BATCH_SIZE
    /\ BeyondCap(d) # {}
    /\ BeyondCap(d) \subseteq DOMAIN pending

\* C25 (fatal failure): when the listing of a run throws, that step leaves the
\* daemon with status error, the guard released, the state file equal to the
\* state, and its timers, watcher and stopped flag as they were; and a daemon
\* with status error is still started, polls, is not stopped and holds the guard
\* only during a run, so that its triggers start runs.
C25_FatalFailure ==
  /\ [](\A d \in Daemons : state[d].status = "error" =>
          /\ instance[d] = "started"
          /\ pollTimer[d]
          /\ ~stopped[d]
          /\ (run[d].pc = "idle" => ~processing[d])
          /\ (debounceTimer[d] /\ run[d].pc = "idle") => ENABLED ProcessBatchListing(d))
  /\ [][\A d \in Daemons :
          (run[d].pc = "list" /\ reply' # reply /\ reply'.op = "batch processing error"
             /\ reply'.handle = d) =>
            /\ state'[d].status = "error"
            /\ ~processing'[d]
            /\ run'[d].pc = "idle"
            /\ stateFile' = state'[d]
            /\ pollTimer'[d] /\ ~stopped'[d] /\ activeDaemon' = d
            /\ watcher'[d] = watcher[d] /\ debounceTimer'[d] = debounceTimer[d]]_vars

\* After a listing failed, a later run of the same daemon is under way and has
\* handled an item.
C25_Witness ==
  \E d \in Daemons :
    /\ reply.op = "batch processing error"
    /\ reply.handle = d
    /\ state[d].status = "error"
    /\ stateFile.status = "error"
    /\ run[d].pc = "loop"
    /\ Len(handled[d]) > 0

\* C26 (state persistence): a started daemon with no run under way has its state
\* (status, counters) in the state file: after its start and after each of its
\* runs, also one that found nothing or failed; and a stop writes the state of
\* the daemon it stops, with status stopped.
C26_StatePersisted ==
  /\ [](\A d \in Daemons :
          (instance[d] = "started" /\ run[d].pc = "idle") => stateFile = state[d])
  /\ [][(activeDaemon # NoDaemon /\ activeDaemon' = NoDaemon /\ process' = process) =>
          stateFile' = [state[activeDaemon] EXCEPT !.status = "stopped"]]_vars

\* C27 (counter consistency): the resolved and failed counts of a daemon never
\* add up to more than its processed count, and never to more than the number of
\* items there are: no item is counted twice among resolved and failed.
C27_CounterConsistency ==
  \A d \in Daemons :
    /\ state[d].bundlesResolved + state[d].bundlesFailed <= state[d].bundlesProcessed
    /\ state[d].bundlesResolved + state[d].bundlesFailed <= Cardinality(issued)

\* C28 (the in-flight guard is released): a daemon with no run under way has
\* processing = false, however its last run ended; and when the debounce timer of
\* a daemon that is not stopped and has no run under way expires, a run starts.
C28_GuardReleased ==
  /\ [](\A d \in Daemons : run[d].pc = "idle" => ~processing[d])
  /\ [][\A d \in Daemons :
          (/\ run[d].pc = "idle"
           /\ debounceTimer[d] /\ ~debounceTimer'[d]
           /\ instance'[d] = "started" /\ ~stopped'[d]) => processing'[d]]_vars

\* A daemon has a new run under way after a run that handled an item and a run
\* whose listing failed.
C28_Witness ==
  \E d \in Daemons :
    /\ processing[d]
    /\ run[d].pc = "list"
    /\ state[d].status = "error"
    /\ state[d].bundlesProcessed > 0

====
